---- MODULE Spec2Model ----
(***************************************************************************)
(* A model of pydantic_forms (src/pydantic_forms/__init__.py): the form    *)
(* binding/validation state machine (BaseForm, Form), the bound fields and *)
(* their widgets (BoundField, Widget and its subclasses).                  *)
(***************************************************************************)
EXTENDS Integers, Sequences, FiniteSets, TLC

(***************************************************************************)
(* Python values.  Every value is a record of one shape: its type, its     *)
(* text (str, SecretStr) and its numeric parts (int: <<n>>, bool: <<0/1>>, *)
(* date: <<Y, m, d>>, time: <<H, M, S>>, datetime: <<Y, m, d, H, M, S>>).  *)
(***************************************************************************)
None == [tag |-> "None", s |-> "", parts |-> <<>>]
PyInt(k) == [tag |-> "int", s |-> "", parts |-> <<k>>]
PyStr(x) == [tag |-> "str", s |-> x, parts |-> <<>>]
PyBool(b) == [tag |-> "bool", s |-> "", parts |-> <<IF b THEN 1 ELSE 0>>]
PySecret(x) == [tag |-> "SecretStr", s |-> x, parts |-> <<>>]
PyDate(Y, m, d) == [tag |-> "date", s |-> "", parts |-> <<Y, m, d>>]
PyTime(H, M, S) == [tag |-> "time", s |-> "", parts |-> <<H, M, S>>]
PyDateTime(Y, m, d, H, M, S) == [tag |-> "datetime", s |-> "", parts |-> <<Y, m, d, H, M, S>>]
\* the builtin function the bare name `format` denotes inside a method body
BuiltinFormat == [tag |-> "builtin_function_or_method", s |-> "format", parts |-> <<>>]

EmptyDict == [k \in {} |-> None]

\* dict.update: the right operand's items override the left operand's
Update(a, b) == [k \in (DOMAIN a) \cup (DOMAIN b) |-> IF k \in DOMAIN b THEN b[k] ELSE a[k]]

\* decimal digits of a natural number, as str() and strftime write them
Digit(n) ==
    CASE n = 0 -> "0" [] n = 1 -> "1" [] n = 2 -> "2" [] n = 3 -> "3" [] n = 4 -> "4"
      [] n = 5 -> "5" [] n = 6 -> "6" [] n = 7 -> "7" [] n = 8 -> "8" [] n = 9 -> "9"

RECURSIVE StrNat(_)
StrNat(n) == IF n < 10 THEN Digit(n) ELSE StrNat(n \div 10) \o Digit(n % 10)

Pad2(n) == Digit((n \div 10) % 10) \o Digit(n % 10)
Pad4(n) == Pad2(n \div 100) \o Pad2(n % 100)

(***************************************************************************)
(* Outcomes of a call: a returned value or a raised exception.             *)
(*   what : the class of the exception, or the kind of the returned value  *)
(*   ref  : the identity of a returned object (0: not an object)           *)
(*   val  : a returned Python value                                        *)
(*   dict : a returned mapping                                             *)
(*   errs : the raw errors of a raised ValidationError                     *)
(***************************************************************************)
Outcome(kind, what, ref, val, dict, errs) ==
    [kind |-> kind, what |-> what, ref |-> ref, val |-> val, dict |-> dict, errs |-> errs]
Raise(cls) == Outcome("raise", cls, 0, None, EmptyDict, <<>>)
RaiseStored(err) == Outcome("raise", err.tag, 0, None, EmptyDict, err.raw_errors)
ReturnNone == Outcome("return", "None", 0, None, EmptyDict, <<>>)
ReturnBool(b) == Outcome("return", "bool", 0, PyBool(b), EmptyDict, <<>>)
ReturnStr(x) == Outcome("return", "str", 0, PyStr(x), EmptyDict, <<>>)
ReturnDict(what, d) == Outcome("return", what, 0, None, d, <<>>)
ReturnRef(what, id) == Outcome("return", what, id, None, EmptyDict, <<>>)
ReturnClass(cls) == Outcome("return", cls, 0, None, EmptyDict, <<>>)
ReturnValue(v) == Outcome("return", "value", 0, v, EmptyDict, <<>>)
NoOutcome == Outcome("none", "", 0, None, EmptyDict, <<>>)

(***************************************************************************)
(* The schema (Config.model) and the validation engine.  A field's type_   *)
(* is its class and, for a constrained number, its ge and le attributes.   *)
(* A type_ that is no class (a Literal such as a Choice[...]) has the cls  *)
(* "Literal".                                                              *)
(***************************************************************************)
Type(cls, ge, le) == [cls |-> cls, ge |-> ge, le |-> le]
PlainType(cls) == Type(cls, None, None)
ModelField(name, type_, required, default) ==
    [name |-> name, type_ |-> type_, required |-> required, default |-> default]

\* Config.model.__fields__, in declaration order:
\*   name: str;  age: conint(ge=0, le=120) = 18;  active: bool = False
Fields ==
    << ModelField("name", PlainType("str"), TRUE, None),
       ModelField("age", Type("int", PyInt(0), PyInt(120)), FALSE, PyInt(18)),
       ModelField("active", PlainType("bool"), FALSE, PyBool(FALSE)) >>

FieldNames == {Fields[i].name : i \in 1..Len(Fields)}
FieldOf(name) == CHOOSE f \in {Fields[i] : i \in 1..Len(Fields)} : f.name = name

\* int("..."): the numeric strings among the raw inputs
IsNumeric(x) == x \in {"30", "200"}
ParseInt(x) == CASE x = "30" -> 30 [] x = "200" -> 200

\* one raw error of a ValidationError: an ErrorWrapper with its location and
\* its exception, which is a PydanticValueError or a PydanticTypeError
ErrorWrapper(loc, base, code) == [loc |-> loc, exc |-> [base |-> base, code |-> code]]

Good(v) == [ok |-> TRUE, value |-> v, error |-> ErrorWrapper(<<>>, "", "")]
Bad(name, base, code) == [ok |-> FALSE, value |-> None, error |-> ErrorWrapper(<<name>>, base, code)]

\* the type's validators: coercion, then the numeric bounds
Coerce(f, v) ==
    CASE f.type_.cls = "str" ->
           IF v.tag = "str" THEN Good(v)
           ELSE IF v.tag = "int" THEN Good(PyStr(StrNat(v.parts[1])))
           ELSE Bad(f.name, "PydanticTypeError", "type_error.str")
      [] f.type_.cls = "int" ->
           LET n == IF v.tag = "str" THEN ParseInt(v.s) ELSE v.parts[1] IN
           IF ~(v.tag = "int" \/ (v.tag = "str" /\ IsNumeric(v.s)))
           THEN Bad(f.name, "PydanticTypeError", "type_error.integer")
           ELSE IF f.type_.ge.tag # "None" /\ n < f.type_.ge.parts[1]
           THEN Bad(f.name, "PydanticValueError", "value_error.number.not_ge")
           ELSE IF f.type_.le.tag # "None" /\ n > f.type_.le.parts[1]
           THEN Bad(f.name, "PydanticValueError", "value_error.number.not_le")
           ELSE Good(PyInt(n))
      [] f.type_.cls = "bool" ->
           IF v.tag = "bool" THEN Good(v)
           ELSE IF v.tag = "int" /\ v.parts[1] \in {0, 1} THEN Good(PyBool(v.parts[1] = 1))
           ELSE Bad(f.name, "PydanticTypeError", "type_error.bool")

ValidateField(f, d) ==
    IF f.name \notin DOMAIN d
    THEN IF f.required THEN Bad(f.name, "PydanticValueError", "value_error.missing")
         ELSE Good(f.default)
    ELSE Coerce(f, d[f.name])

ModelNone == [tag |-> "None", dict |-> EmptyDict]
ModelInstance(d) == [tag |-> "Model", dict |-> d]
OtherObject == [tag |-> "object", dict |-> EmptyDict]

ErrorNone == [tag |-> "None", raw_errors |-> <<>>]
ValidationError(errs) == [tag |-> "ValidationError", raw_errors |-> errs]

\* model_class(**data): the typed value, or the ValidationError that holds
\* the fields' errors in declaration order
ModelClass(d) ==
    LET rs == [i \in 1..Len(Fields) |-> ValidateField(Fields[i], d)]
        bad == SelectSeq(rs, LAMBDA r : ~r.ok)
    IN  IF bad = <<>>
        THEN [model |-> ModelInstance([k \in FieldNames |->
                          rs[CHOOSE i \in 1..Len(Fields) : Fields[i].name = k].value]),
              error |-> ErrorNone]
        ELSE [model |-> ModelNone,
              error |-> ValidationError([i \in 1..Len(bad) |-> bad[i].error])]

(***************************************************************************)
(* Bounds of the model.                                                    *)
(***************************************************************************)
\* how many times the environment (the process_data hook of a subclass, the
\* model constructor) may raise an error that is no ValidationError
MaxFailures == 1
\* how many BoundField and Widget objects one form may create
MaxObjects == 2

(***************************************************************************)
(* The state of one form instance and of its caller.                       *)
(***************************************************************************)
VARIABLES
    created,        \* a form instance exists (__init__ returned)
    config,         \* the form type's __config__
    assertsOn,      \* the interpreter runs assert statements (no -O)
    probe,          \* the arguments of the last direct call of a widget method
    _data,          \* BaseForm._data
    _initial,       \* BaseForm._initial
    _error,         \* BaseForm._error
    _model,         \* BaseForm._model
    _model_data,    \* BaseForm._model_data
    cache,          \* the functools.cache of Form.bind_field, for this instance
    heap,           \* the BoundField and Widget objects created, by identity
    hookCalls,      \* calls of process_data so far
    validateCalls,  \* calls of model_class(**data) so far
    firstClean,     \* the outcome of the clean() that set the memo
    classTable,     \* the classes created so far, by identity
    subject,        \* the form class the last class-level operation was about
    last            \* the last call and its outcome

vars == << created, config, assertsOn, probe, _data, _initial, _error, _model, _model_data,
           cache, heap, hookCalls, validateCalls, firstClean, classTable, subject, last >>

classVars == << classTable, subject >>

formVars == << _data, _initial, _error, _model, _model_data >>
memoVars == << _error, _model, _model_data, hookCalls, validateCalls, firstClean >>

Call(op, arg, style, out) == [op |-> op, arg |-> arg, style |-> style, out |-> out]

NoProbe ==
    [field |-> ModelField("", PlainType(""), FALSE, None),
     self |-> [cls |-> "", fields |-> EmptyDict],
     value |-> None]

DataNone == [tag |-> "None", dict |-> EmptyDict]
DataDict(d) == [tag |-> "dict", dict |-> d]

\* the effective configurations of the form types of the model
Config(prefix, widget_classes, widget_kwargs) ==
    [prefix |-> prefix, widget_classes |-> widget_classes, widget_kwargs |-> widget_kwargs]
FormConfig == Config("", EmptyDict, EmptyDict)
Configs ==
    { FormConfig,
      Config("f_", "age" :> "Checkbox", EmptyDict) }

\* the raw inputs and the initial values a caller passes
RawValues(name) ==
    CASE name = "name" -> {PyStr("Al")}
      [] name = "age" -> {PyStr("30"), PyInt(200), PyStr("abc")}
      [] name = "active" -> {PyStr("x")}
AllRawValues == UNION {RawValues(k) : k \in FieldNames}
RawData ==
    {DataNone} \cup
    { DataDict(d) : d \in
        UNION { {m \in [S -> AllRawValues] : \A k \in S : m[k] \in RawValues(k)} :
                S \in SUBSET FieldNames } }
Initials ==
    { ModelNone,
      ModelInstance([name |-> PyStr("Bo"), age |-> PyInt(40), active |-> PyBool(TRUE)]),
      OtherObject }

(***************************************************************************)
(* BaseForm                                                                *)
(***************************************************************************)
\* isinstance(initial, self.__config__.model)
IsModelInstance(initial) == initial.tag = "Model"

\* an __init__ whose isinstance test lost its `not`
InitialRejectedInverted(initial) == initial.tag # "None" /\ IsModelInstance(initial)
\* __init__: initial is not None and not isinstance(initial, ...model)
InitialRejected(initial) == initial.tag # "None" /\ ~IsModelInstance(initial)

\* a get_model_data that never reads the validated model
GetModelDataUnvalidated(model, initial, data) ==
    Update(IF initial.tag # "None" THEN initial.dict ELSE EmptyDict,
           IF data.tag # "None" THEN data.dict ELSE EmptyDict)

\* BaseForm.get_model_data
GetModelData(model, initial, data) ==
    IF model.tag # "None"
    THEN model.dict
    ELSE Update(IF initial.tag # "None" THEN initial.dict ELSE EmptyDict,
                IF data.tag # "None" THEN data.dict ELSE EmptyDict)

\* the default hook
ProcessData(data) == data

\* clean(), first test: the form is bound and contains errors
HasError == _error.tag # "None"

\* a clean() that does not test for a stored model
HasModelNever == FALSE
\* clean(), second test: the form is bound with no errors
HasModel == _model.tag # "None"

\* a clean() that raises the ValidationError without storing it
StoreErrorForgotten(ex) == ErrorNone
\* clean(): self._error = ex
StoreError(ex) == ex

\* a clean() that stores every error it ends in, also one that is no
\* ValidationError, and replays it
CleanResultStoreEvery(env) ==
    LET same(hook, validate, out) ==
            [error |-> _error, model |-> _model, model_data |-> _model_data,
             hook |-> hook, validate |-> validate, out |-> out]
        stored(hook, validate, cls) ==
            [error |-> [tag |-> cls, raw_errors |-> << >>], model |-> _model,
             model_data |-> _model_data, hook |-> hook, validate |-> validate,
             out |-> Raise(cls)]
    IN
    IF HasError THEN same(0, 0, RaiseStored(_error))
    ELSE IF HasModel THEN same(0, 0, ReturnNone)
    ELSE IF env = "process_data raises" THEN stored(1, 0, "RuntimeError")
    ELSE IF env = "model_class raises" THEN stored(1, 1, "TypeError")
    ELSE LET r == ModelClass(ProcessData(GetModelData(_model, _initial, _data))) IN
         IF r.error.tag # "None"
         THEN [error |-> StoreError(r.error), model |-> _model, model_data |-> _model_data,
               hook |-> 1, validate |-> 1, out |-> RaiseStored(r.error)]
         ELSE [error |-> _error, model |-> r.model,
               model_data |-> GetModelData(r.model, _initial, _data),
               hook |-> 1, validate |-> 1, out |-> ReturnNone]

\* clean(): the next memo, the calls it makes and its outcome.  env is what
\* the collaborators do when they are called: "ok", or one of them raises an
\* error that is no ValidationError.
CleanResult(env) ==
    LET same(hook, validate, out) ==
            [error |-> _error, model |-> _model, model_data |-> _model_data,
             hook |-> hook, validate |-> validate, out |-> out]
    IN
    IF HasError THEN same(0, 0, RaiseStored(_error))
    ELSE IF HasModel THEN same(0, 0, ReturnNone)
    ELSE IF env = "process_data raises" THEN same(1, 0, Raise("RuntimeError"))
    ELSE IF env = "model_class raises" THEN same(1, 1, Raise("TypeError"))
    ELSE LET r == ModelClass(ProcessData(GetModelData(_model, _initial, _data))) IN
         IF r.error.tag # "None"
         THEN [error |-> StoreError(r.error), model |-> _model, model_data |-> _model_data,
               hook |-> 1, validate |-> 1, out |-> RaiseStored(r.error)]
         ELSE [error |-> _error, model |-> r.model,
               model_data |-> GetModelData(r.model, _initial, _data),
               hook |-> 1, validate |-> 1, out |-> ReturnNone]

Envs ==
    IF hookCalls < MaxFailures
    THEN {"ok", "process_data raises", "model_class raises"}
    ELSE {"ok"}

\* the state a clean() leaves
ApplyClean(r) ==
    /\ _error' = r.error
    /\ _model' = r.model
    /\ _model_data' = r.model_data
    /\ hookCalls' = hookCalls + r.hook
    /\ validateCalls' = validateCalls + r.validate
    /\ firstClean' = IF ~HasError /\ ~HasModel /\ (r.error.tag # "None" \/ r.model.tag # "None")
                     THEN r.out ELSE firstClean

\* BaseForm.__init__
\* (InitialRejected is its test of initial)
Construct(data, initial) ==
    /\ ~created
    /\ IF InitialRejected(initial)
       THEN /\ last' = Call("__init__", initial.tag, "", Raise("ValueError"))
            /\ UNCHANGED << created, formVars >>
       ELSE /\ created' = TRUE
            /\ _data' = data
            /\ _error' = ErrorNone
            /\ _model' = ModelNone
            /\ _initial' = initial
            /\ _model_data' = GetModelData(ModelNone, initial, data)
            /\ last' = Call("__init__", initial.tag, "", ReturnNone)
    /\ UNCHANGED << classVars, config, assertsOn, probe, cache, heap, hookCalls, validateCalls,
                    firstClean >>

\* BaseForm.clean
Clean ==
    /\ created
    /\ \E env \in Envs :
         LET r == CleanResult(env) IN
         /\ ApplyClean(r)
         /\ last' = Call("clean", "", "", r.out)
    /\ UNCHANGED << classVars, created, config, assertsOn, probe, _data, _initial, cache, heap >>

\* BaseForm.data
DataOutcome(r) ==
    IF r.out.kind = "raise" THEN r.out ELSE ReturnDict("Model", r.model.dict)

Data ==
    /\ created
    /\ \E env \in Envs :
         LET r == CleanResult(env) IN
         /\ ApplyClean(r)
         /\ last' = Call("data", "", "", DataOutcome(r))
    /\ UNCHANGED << classVars, created, config, assertsOn, probe, _data, _initial, cache, heap >>

\* the loop of BaseForm.errors over error.raw_errors; every raw error of the
\* engine is an ErrorWrapper
RECURSIVE Regroup(_, _)
Regroup(raw, errors) ==
    IF raw = <<>> THEN ReturnDict("dict", errors)
    ELSE LET exc == Head(raw) IN
         IF assertsOn /\ exc.exc.base # "PydanticValueError" THEN Raise("AssertionError")
         ELSE IF Len(exc.loc) # 1 THEN Raise("ValueError")
         ELSE LET field == exc.loc[1]
                  sofar == IF field \in DOMAIN errors THEN errors[field] ELSE <<>>
              IN  Regroup(Tail(raw), Update(errors, field :> Append(sofar, exc.exc)))

\* BaseForm.errors
ErrorsOutcome(r) ==
    IF r.out.kind = "raise" /\ r.out.what # "ValidationError" THEN r.out
    ELSE IF r.out.kind = "return" THEN ReturnNone
    ELSE Regroup(r.error.raw_errors, EmptyDict)

Errors ==
    /\ created
    /\ \E env \in Envs :
         LET r == CleanResult(env) IN
         /\ ApplyClean(r)
         /\ last' = Call("errors", "", "", ErrorsOutcome(r))
    /\ UNCHANGED << classVars, created, config, assertsOn, probe, _data, _initial, cache, heap >>

\* an is_valid() whose except branch returns True as well
IsValidOutcomeAlwaysTrue(r) ==
    IF r.out.kind = "raise" /\ r.out.what # "ValidationError" THEN r.out
    ELSE ReturnBool(TRUE)

\* BaseForm.is_valid
IsValidOutcome(r) ==
    IF r.out.kind = "raise" /\ r.out.what # "ValidationError" THEN r.out
    ELSE ReturnBool(r.out.kind = "return")

IsValid ==
    /\ created
    /\ \E env \in Envs :
         LET r == CleanResult(env) IN
         /\ ApplyClean(r)
         /\ last' = Call("is_valid", "", "", IsValidOutcome(r))
    /\ UNCHANGED << classVars, created, config, assertsOn, probe, _data, _initial, cache, heap >>

\* BaseForm.value_of
ValueOf(model_data, field) ==
    IF field \in DOMAIN model_data THEN model_data[field] ELSE FieldOf(field).default

\* form.value_of(name): the default of the schema's field is looked up
\* before the snapshot is read, so an undeclared name raises KeyError
ValueOfCall(name) ==
    /\ created
    /\ last' = Call("value_of", name, "",
                    IF name \in FieldNames THEN ReturnValue(ValueOf(_model_data, name))
                    ELSE Raise("KeyError"))
    /\ UNCHANGED << classVars, created, config, assertsOn, probe, formVars, cache, heap,
                    hookCalls, validateCalls, firstClean >>

(***************************************************************************)
(* Python classes: issubclass, str() and strftime.                         *)
(***************************************************************************)
\* the classes a class is a subclass of
Bases(cls) ==
    CASE cls = "bool" -> {"bool", "int", "object"}
      [] cls = "datetime" -> {"datetime", "date", "object"}
      [] OTHER -> {cls, "object"}

\* issubclass(type_, ...) raises TypeError when type_ is no class
IsClass(type_) == type_.cls # "Literal"
IsSubclass(type_, classes) == Bases(type_.cls) \cap classes # {}

StrInt(n) == IF n < 0 THEN "-" \o StrNat(-n) ELSE StrNat(n)

\* the fields of a date, time or datetime as strftime reads them
Year(v) == IF v.tag = "time" THEN 1900 ELSE v.parts[1]
Month(v) == IF v.tag = "time" THEN 1 ELSE v.parts[2]
Day(v) == IF v.tag = "time" THEN 1 ELSE v.parts[3]
Hour(v) == CASE v.tag = "time" -> v.parts[1] [] v.tag = "datetime" -> v.parts[4] [] OTHER -> 0
Minute(v) == CASE v.tag = "time" -> v.parts[2] [] v.tag = "datetime" -> v.parts[5] [] OTHER -> 0
Second(v) == CASE v.tag = "time" -> v.parts[3] [] v.tag = "datetime" -> v.parts[6] [] OTHER -> 0

IsoDate(v) == Pad4(Year(v)) \o "-" \o Pad2(Month(v)) \o "-" \o Pad2(Day(v))
IsoTime(v) == Pad2(Hour(v)) \o ":" \o Pad2(Minute(v)) \o ":" \o Pad2(Second(v))

\* str(value)
PyStrOf(v) ==
    CASE v.tag = "None" -> "None"
      [] v.tag = "int" -> StrInt(v.parts[1])
      [] v.tag = "bool" -> IF v.parts[1] = 1 THEN "True" ELSE "False"
      [] v.tag = "str" -> v.s
      [] v.tag = "SecretStr" -> "**********"
      [] v.tag = "date" -> IsoDate(v)
      [] v.tag = "time" -> IsoTime(v)
      [] v.tag = "datetime" -> IsoDate(v) \o " " \o IsoTime(v)

\* the directives and literal characters of the format strings of the widgets
Tokens(fmt) ==
    CASE fmt = "%Y-%m-%d" -> << "%Y", "-", "%m", "-", "%d" >>
      [] fmt = "%H:%M:%S" -> << "%H", ":", "%M", ":", "%S" >>
      [] fmt = "%Y-%m-%dT%H:%M:%S" ->
           << "%Y", "-", "%m", "-", "%d", "T", "%H", ":", "%M", ":", "%S" >>
      [] fmt = "%Y-%m-%dT%H{%M:%S" ->
           << "%Y", "-", "%m", "-", "%d", "T", "%H", "{", "%M", ":", "%S" >>

Directive(tok, v) ==
    CASE tok = "%Y" -> Pad4(Year(v))
      [] tok = "%m" -> Pad2(Month(v))
      [] tok = "%d" -> Pad2(Day(v))
      [] tok = "%H" -> Pad2(Hour(v))
      [] tok = "%M" -> Pad2(Minute(v))
      [] tok = "%S" -> Pad2(Second(v))
      [] OTHER -> tok

RECURSIVE Expand(_, _)
Expand(toks, v) == IF toks = <<>> THEN "" ELSE Directive(Head(toks), v) \o Expand(Tail(toks), v)

\* obj.strftime(fmt): the attribute lookup, then the argument check, then
\* the formatting
Strftime(obj, fmt) ==
    IF obj.tag \notin {"date", "time", "datetime"} THEN Raise("AttributeError")
    ELSE IF fmt.tag # "str" THEN Raise("TypeError")
    ELSE ReturnStr(Expand(Tokens(fmt.s), obj))

(***************************************************************************)
(* Widgets                                                                 *)
(***************************************************************************)
WidgetClasses ==
    {"Widget", "Input", "String", "Password", "Number", "Date", "Time", "DateTime", "Checkbox"}

\* the classes of the method resolution order of a widget class
WidgetMro(cls) ==
    CASE cls = "Widget" -> <<"Widget">>
      [] cls = "Input" -> <<"Input", "Widget">>
      [] cls = "String" -> <<"String", "Input", "Widget">>
      [] cls = "Password" -> <<"Password", "String", "Input", "Widget">>
      [] cls = "Number" -> <<"Number", "Input", "Widget">>
      [] cls = "Date" -> <<"Date", "StrftimeMixin", "Input", "Widget">>
      [] cls = "Time" -> <<"Time", "StrftimeMixin", "Input", "Widget">>
      [] cls = "DateTime" -> <<"DateTime", "StrftimeMixin", "Input", "Widget">>
      [] cls = "Checkbox" -> <<"Checkbox", "Input", "Widget">>

HasBase(cls, base) == \E i \in 1..Len(WidgetMro(cls)) : WidgetMro(cls)[i] = base

\* the fields a widget class declares, with their defaults
WidgetDefaults(cls) ==
    LET widget == [name |-> None, id |-> None, value |-> None, required |-> PyBool(FALSE),
                   class_ |-> None, autofocus |-> PyBool(FALSE), autocomplete |-> None,
                   placeholder |-> None]
        input == IF cls = "Widget" THEN EmptyDict
                 ELSE [type |-> PyStr("text"), list |-> None]
        own == CASE cls = "Password" -> "type" :> PyStr("password")
                 [] cls = "Number" -> [type |-> PyStr("number"), min |-> None, max |-> None,
                                       step |-> None]
                 [] cls = "Date" -> [type |-> PyStr("date"), format |-> PyStr("%Y-%m-%d")]
                 [] cls = "Time" -> [type |-> PyStr("date"), format |-> PyStr("%H:%M:%S")]
                 [] cls = "DateTime" -> [type |-> PyStr("date"),
                                         format |-> PyStr("%Y-%m-%dT%H{%M:%S")]
                 [] cls = "Checkbox" -> "type" :> PyStr("checkbox")
                 [] OTHER -> EmptyDict
    IN  Update(Update(widget, input), own)

\* widget_class(**kwargs): the declared fields take the keyword arguments
\* given for them ("class" is the alias of class_), other keywords are ignored
NewWidget(cls, kwargs) ==
    LET defaults == WidgetDefaults(cls)
        given(k) == IF k = "class_" THEN "class" ELSE k
    IN  [cls |-> cls,
         fields |-> [k \in DOMAIN defaults |->
                       IF given(k) \in DOMAIN kwargs THEN kwargs[given(k)] ELSE defaults[k]]]

\* Widget.format_value
WidgetFormatValue(self, value) ==
    IF value.tag = "None" THEN ReturnStr("") ELSE ReturnStr(PyStrOf(value))

\* Password.format_value
PasswordFormatValue(self, value) ==
    IF value.tag = "None" THEN ReturnStr("")
    ELSE IF value.tag = "SecretStr" THEN ReturnStr(value.s)
    ELSE Raise("AttributeError")

\* StrftimeMixin.format_value: `format` is the builtin, not self.format
StrftimeFormatValue(self, value) ==
    IF value.tag = "None" THEN ReturnStr("")
    ELSE Strftime(self.fields["value"], BuiltinFormat)

\* widget.format_value(value), by the method resolution order
FormatValue(self, value) ==
    IF self.cls = "Password" THEN PasswordFormatValue(self, value)
    ELSE IF HasBase(self.cls, "StrftimeMixin") THEN StrftimeFormatValue(self, value)
    ELSE WidgetFormatValue(self, value)

\* a Number.additional_kwargs that tests the bounds for truth (`if ge:`)
AdditionalKwargsTruthy(cls, field) ==
    IF cls = "Number"
    THEN Update(IF field.type_.ge.tag # "None" /\ field.type_.ge # PyInt(0)
                THEN "min" :> PyStr(PyStrOf(field.type_.ge)) ELSE EmptyDict,
                IF field.type_.le.tag # "None" /\ field.type_.le # PyInt(0)
                THEN "max" :> PyStr(PyStrOf(field.type_.le)) ELSE EmptyDict)
    ELSE EmptyDict

\* Widget.additional_kwargs, Number.additional_kwargs
AdditionalKwargs(cls, field) ==
    IF cls = "Number"
    THEN Update(IF field.type_.ge.tag # "None"
                THEN "min" :> PyStr(PyStrOf(field.type_.ge)) ELSE EmptyDict,
                IF field.type_.le.tag # "None"
                THEN "max" :> PyStr(PyStrOf(field.type_.le)) ELSE EmptyDict)
    ELSE EmptyDict

\* __exclude_attrs__, as WidgetMetaclass.__new__ collects it from the bases
\* and the namespace
ExcludeAttrs(cls) ==
    {"class_", "value"} \cup (IF HasBase(cls, "StrftimeMixin") THEN {"format"} ELSE {})

\* Widget.attrs
WidgetAttrs(self) ==
    LET formatted == FormatValue(self, self.fields["value"])
        own == [k \in DOMAIN self.fields \ ExcludeAttrs(self.cls) |-> self.fields[k]]
    IN  IF formatted.kind = "raise" THEN formatted
        ELSE ReturnDict("dict", Update(own, [class |-> self.fields["class_"],
                                             value |-> formatted.val]))

\* Checkbox.attrs
CheckboxAttrs(self) ==
    LET attrs == WidgetAttrs(self) IN
    IF attrs.kind = "raise" THEN attrs
    ELSE ReturnDict("dict", Update([k \in DOMAIN attrs.dict \ {"value"} |-> attrs.dict[k]],
                                   "checked" :> self.fields["value"]))

\* widget.attrs(), by the method resolution order
Attrs(self) == IF self.cls = "Checkbox" THEN CheckboxAttrs(self) ELSE WidgetAttrs(self)

(***************************************************************************)
(* BoundField                                                              *)
(***************************************************************************)
\* a widget_class that infers from the type first and consults the override
\* only for the types it does not know
WidgetClassInferenceFirst(field, cfg) ==
    IF ~IsClass(field.type_) THEN Raise("TypeError")
    ELSE IF IsSubclass(field.type_, {"bool"}) THEN ReturnClass("Checkbox")
    ELSE IF IsSubclass(field.type_, {"int", "float"}) THEN ReturnClass("Number")
    ELSE IF field.type_.cls = "date" THEN ReturnClass("Date")
    ELSE IF field.type_.cls = "time" THEN ReturnClass("Time")
    ELSE IF field.type_.cls = "datetime" THEN ReturnClass("DateTime")
    ELSE IF IsSubclass(field.type_, {"SecretStr"}) THEN ReturnClass("Password")
    ELSE IF field.name \in DOMAIN cfg.widget_classes
    THEN ReturnClass(cfg.widget_classes[field.name])
    ELSE ReturnClass("Input")

\* BoundField.widget_class
WidgetClass(field, cfg) ==
    IF field.name \in DOMAIN cfg.widget_classes
    THEN ReturnClass(cfg.widget_classes[field.name])
    ELSE IF ~IsClass(field.type_) THEN Raise("TypeError")
    ELSE IF IsSubclass(field.type_, {"bool"}) THEN ReturnClass("Checkbox")
    ELSE IF IsSubclass(field.type_, {"int", "float"}) THEN ReturnClass("Number")
    ELSE IF field.type_.cls = "date" THEN ReturnClass("Date")
    ELSE IF field.type_.cls = "time" THEN ReturnClass("Time")
    ELSE IF field.type_.cls = "datetime" THEN ReturnClass("DateTime")
    ELSE IF IsSubclass(field.type_, {"SecretStr"}) THEN ReturnClass("Password")
    ELSE ReturnClass("Input")

\* Form.prefix_name
PrefixName(cfg, name) == cfg.prefix \o name

\* a widget_kwargs that merges the configured attributes before the widget
\* type's own
WidgetKwargsConfigFirst(field, cfg, model_data, widget_class) ==
    LET name == PrefixName(cfg, field.name)
        kwargs == [name |-> PyStr(name), id |-> PyStr("id_" \o name),
                   required |-> PyBool(field.required),
                   value |-> ValueOf(model_data, field.name)]
    IN  Update(Update(kwargs, IF field.name \in DOMAIN cfg.widget_kwargs
                              THEN cfg.widget_kwargs[field.name] ELSE EmptyDict),
               AdditionalKwargs(widget_class, field))

\* BoundField.widget_kwargs
WidgetKwargs(field, cfg, model_data, widget_class) ==
    LET name == PrefixName(cfg, field.name)
        kwargs == [name |-> PyStr(name), id |-> PyStr("id_" \o name),
                   required |-> PyBool(field.required),
                   value |-> ValueOf(model_data, field.name)]
    IN  Update(Update(kwargs, AdditionalKwargs(widget_class, field)),
               IF field.name \in DOMAIN cfg.widget_kwargs
               THEN cfg.widget_kwargs[field.name] ELSE EmptyDict)

\* the objects of the heap
BoundFieldObject(name) ==
    [type |-> "BoundField", field |-> name, widget |-> 0, cls |-> "", fields |-> EmptyDict]
WidgetObject(name, w) ==
    [type |-> "Widget", field |-> name, widget |-> 0, cls |-> w.cls, fields |-> w.fields]

BoundFields == {id \in 1..Len(heap) : heap[id].type = "BoundField"}
Widgets == {id \in 1..Len(heap) : heap[id].type = "Widget"}

\* the names a caller asks for: the declared fields and an undeclared one
BindNames == {"age", "active", "nope"}
\* how a caller passes the name: bind_field(name) or bind_field(name=name)
Styles == {"positional", "keyword"}

(***************************************************************************)
(* Form                                                                    *)
(***************************************************************************)
\* the key functools.cache makes of a call's arguments: the positional
\* arguments, then a mark and the keyword arguments
MakeKey(style, name) ==
    IF style = "positional" THEN << name >> ELSE << "kwd_mark", "name", name >>

\* a lookup of the field that never fails
IsDeclaredAlways(name) == TRUE
\* self.__config__.model.__fields__[name] raises KeyError for other names
IsDeclared(name) == name \in FieldNames

\* a bind_field that looks the field up before it validates
BindFieldCallLookupFirst(op, style, name) ==
    LET key == MakeKey(style, name) IN
    IF key \in DOMAIN cache
    THEN /\ last' = Call(op, name, style, ReturnRef("BoundField", cache[key]))
         /\ UNCHANGED << memoVars, cache, heap >>
    ELSE IF ~IsDeclared(name)
    THEN /\ last' = Call(op, name, style, Raise("KeyError"))
         /\ UNCHANGED << memoVars, cache, heap >>
    ELSE \E env \in Envs :
           LET r == CleanResult(env) IN
           /\ ApplyClean(r)
           /\ IF r.out.kind = "raise"
              THEN /\ last' = Call(op, name, style, r.out)
                   /\ UNCHANGED << cache, heap >>
              ELSE /\ Len(heap) < MaxObjects
                   /\ heap' = Append(heap, BoundFieldObject(name))
                   /\ cache' = Update(cache, key :> (Len(heap) + 1))
                   /\ last' = Call(op, name, style, ReturnRef("BoundField", Len(heap) + 1))

\* Form.bind_field, under functools.cache: a call whose key is cached returns
\* the cached object without running the method; a call that raises caches
\* nothing
BindFieldCall(op, style, name) ==
    LET key == MakeKey(style, name) IN
    IF key \in DOMAIN cache
    THEN /\ last' = Call(op, name, style, ReturnRef("BoundField", cache[key]))
         /\ UNCHANGED << memoVars, cache, heap >>
    ELSE \E env \in Envs :
           LET r == CleanResult(env) IN
           /\ ApplyClean(r)
           /\ IF r.out.kind = "raise"
              THEN /\ last' = Call(op, name, style, r.out)
                   /\ UNCHANGED << cache, heap >>
              ELSE IF ~IsDeclared(name)
              THEN /\ last' = Call(op, name, style, Raise("KeyError"))
                   /\ UNCHANGED << cache, heap >>
              ELSE /\ Len(heap) < MaxObjects
                   /\ heap' = Append(heap, BoundFieldObject(name))
                   /\ cache' = Update(cache, key :> (Len(heap) + 1))
                   /\ last' = Call(op, name, style, ReturnRef("BoundField", Len(heap) + 1))

BindField(style, name) ==
    /\ created
    /\ BindFieldCall("bind_field", style, name)
    /\ UNCHANGED << classVars, created, config, assertsOn, probe, _data, _initial >>

\* Form.__getitem__
GetItem(name) ==
    /\ created
    /\ BindFieldCall("__getitem__", "positional", name)
    /\ UNCHANGED << classVars, created, config, assertsOn, probe, _data, _initial >>

\* a widget that is no cached_property and takes its value from the raw
\* input: every access builds it again
WidgetAccessLive(id) ==
    /\ id \in BoundFields
    /\ LET name == heap[id].field
           wc == WidgetClass(FieldOf(name), config)
           w == NewWidget(wc.what,
                          WidgetKwargs(FieldOf(name), config,
                                       GetModelData(ModelNone, _initial, _data), wc.what))
       IN  IF wc.kind = "raise"
           THEN /\ last' = Call("widget", name, "", wc)
                /\ UNCHANGED heap
           ELSE IF heap[id].widget # 0
           THEN /\ heap' = [heap EXCEPT ![heap[id].widget] = WidgetObject(name, w)]
                /\ last' = Call("widget", name, "", ReturnRef(wc.what, heap[id].widget))
           ELSE /\ Len(heap) < MaxObjects
                /\ heap' = Append([heap EXCEPT ![id].widget = Len(heap) + 1],
                                  WidgetObject(name, w))
                /\ last' = Call("widget", name, "", ReturnRef(wc.what, Len(heap) + 1))
    /\ UNCHANGED << classVars, created, config, assertsOn, probe, formVars, cache, hookCalls,
                    validateCalls, firstClean >>

\* BoundField.widget, a cached_property: computed at the first access that
\* does not raise, the stored object afterwards
WidgetAccess(id) ==
    /\ id \in BoundFields
    /\ LET name == heap[id].field
           wc == WidgetClass(FieldOf(name), config)
       IN  IF heap[id].widget # 0
           THEN /\ last' = Call("widget", name, "",
                                ReturnRef(heap[heap[id].widget].cls, heap[id].widget))
                /\ UNCHANGED heap
           ELSE IF wc.kind = "raise"
           THEN /\ last' = Call("widget", name, "", wc)
                /\ UNCHANGED heap
           ELSE /\ Len(heap) < MaxObjects
                /\ LET w == NewWidget(wc.what,
                                      WidgetKwargs(FieldOf(name), config, _model_data, wc.what))
                   IN  heap' = Append([heap EXCEPT ![id].widget = Len(heap) + 1],
                                      WidgetObject(name, w))
                /\ last' = Call("widget", name, "", ReturnRef(wc.what, Len(heap) + 1))
    /\ UNCHANGED << classVars, created, config, assertsOn, probe, formVars, cache, hookCalls, validateCalls,
                    firstClean >>

(***************************************************************************)
(* Classes and the configuration inheritance.  A class is an entry of the  *)
(* class table, known by its position: its bases, its namespace (for a     *)
(* Config class, the configuration keys its body assigns), its method      *)
(* resolution order and, for a form class, its __config__ and the Config   *)
(* class its body declared (0: none).                                      *)
(***************************************************************************)
ConfigKeys == {"prefix", "renderer", "widget_classes", "widget_kwargs"}

Class(kind, name, bases, ns, cfg, own, mro) ==
    [kind |-> kind, name |-> name, bases |-> bases, ns |-> ns, config |-> cfg,
     own |-> own, mro |-> mro]

Elements(seq) == {seq[i] : i \in 1..Len(seq)}

\* the C3 linearisation's merge: the first head that is in no tail, again
\* and again; an element 0 in the result says there is no such head (no
\* consistent method resolution order)
RECURSIVE C3Merge(_)
C3Merge(lists) ==
    LET ne == SelectSeq(lists, LAMBDA l : l # <<>>)
        tails == UNION {Elements(Tail(ne[j])) : j \in 1..Len(ne)}
        cands == {i \in 1..Len(ne) : Head(ne[i]) \notin tails}
    IN  IF ne = <<>> THEN <<>>
        ELSE IF cands = {} THEN <<0>>
        ELSE LET i == CHOOSE c \in cands : \A d \in cands : c <= d
                 h == Head(ne[i])
             IN  <<h>> \o C3Merge([j \in 1..Len(ne) |->
                                     IF Head(ne[j]) = h THEN Tail(ne[j]) ELSE ne[j]])

\* the class `object`, and the class table that holds nothing else
Object == Class("builtin", "object", <<>>, EmptyDict, 0, 0, <<1>>)
Builtins == << Object >>

ClassNamed(tbl, name) == CHOOSE id \in 1..Len(tbl) : tbl[id].name = name

NoClass(tbl) == [ok |-> FALSE, tbl |-> tbl, id |-> 0]

\* Body(value), with the value computed once
Let(value, Body(_)) == CHOOSE out \in {Body(v) : v \in {value}} : TRUE

\* type(name, bases, namespace): the new class, or TypeError for a base
\* given twice and for bases without a consistent method resolution order
TypeNew(tbl, kind, name, bases, ns, cfg, own) ==
    LET bs == IF bases = <<>> THEN << ClassNamed(tbl, "object") >> ELSE bases
        id == Len(tbl) + 1
    IN  Let(C3Merge([i \in 1..Len(bs) |-> tbl[bs[i]].mro] \o << bs >>),
            LAMBDA merged :
              IF (\E i, j \in 1..Len(bs) : i # j /\ bs[i] = bs[j]) \/ 0 \in Elements(merged)
              THEN NoClass(tbl)
              ELSE [ok |-> TRUE, id |-> id,
                    tbl |-> Append(tbl, Class(kind, name, bs, ns, cfg, own,
                                              <<id>> \o merged))])

\* issubclass(cls, base)
IsSubclassOf(tbl, cls, base) == base \in Elements(tbl[cls].mro)

\* inherit_config
InheritConfig(tbl, self_config, parent_config) ==
    TypeNew(tbl, "config", "Config",
            IF self_config = parent_config THEN << self_config >>
            ELSE << self_config, parent_config >>,
            EmptyDict, 0, 0)

\* a loop that takes no base's configuration, as if
\* _is_base_form_class_defined were never set
FoldBasesSkipped(tbl, flag, bases, i, cfg) == [ok |-> TRUE, tbl |-> tbl, id |-> cfg]

\* a loop `for base in bases`, without reversed: with i bases left, it takes
\* the base at position Len(bases) - i + 1
RECURSIVE FoldBasesForward(_, _, _, _, _)
FoldBasesForward(tbl, flag, bases, i, cfg) ==
    IF i = 0 THEN [ok |-> TRUE, tbl |-> tbl, id |-> cfg]
    ELSE LET base == bases[Len(bases) - i + 1] IN
         IF flag /\ IsSubclassOf(tbl, base, ClassNamed(tbl, "BaseForm"))
                 /\ base # ClassNamed(tbl, "BaseForm")
         THEN Let(InheritConfig(tbl, tbl[base].config, cfg),
                  LAMBDA r : IF r.ok THEN FoldBasesForward(r.tbl, flag, bases, i - 1, r.id)
                             ELSE r)
         ELSE FoldBasesForward(tbl, flag, bases, i - 1, cfg)

\* FormMetaclass.__new__, the loop `for base in reversed(bases)`, from the
\* base at position i down to the first one.  flag is the value of
\* _is_base_form_class_defined.
RECURSIVE FoldBases(_, _, _, _, _)
FoldBases(tbl, flag, bases, i, cfg) ==
    IF i = 0 THEN [ok |-> TRUE, tbl |-> tbl, id |-> cfg]
    ELSE IF flag /\ IsSubclassOf(tbl, bases[i], ClassNamed(tbl, "BaseForm"))
                 /\ bases[i] # ClassNamed(tbl, "BaseForm")
    THEN Let(InheritConfig(tbl, tbl[bases[i]].config, cfg),
             LAMBDA r : IF r.ok THEN FoldBases(r.tbl, flag, bases, i - 1, r.id) ELSE r)
    ELSE FoldBases(tbl, flag, bases, i - 1, cfg)

\* FormMetaclass.__new__; own is the Config class of the namespace (0: none)
FormMetaclassNew(tbl, flag, name, bases, own) ==
    Let(FoldBases(tbl, flag, bases, Len(bases), ClassNamed(tbl, "BaseConfig")),
        LAMBDA folded :
          Let(IF folded.ok /\ own # 0 THEN InheritConfig(folded.tbl, own, folded.id)
              ELSE folded,
              LAMBDA cfg :
                IF cfg.ok
                THEN TypeNew(cfg.tbl, "form", name, bases, EmptyDict, cfg.id, own)
                ELSE cfg))

\* what the body of a form class declares as its Config: nothing, or a class
\* with a base (0: none) and the keys it assigns
NoDecl == [declared |-> FALSE, parent |-> 0, ns |-> EmptyDict]
Decl(parent, ns) == [declared |-> TRUE, parent |-> parent, ns |-> ns]

\* the statement `class name(*bases): ...`: the body runs (it creates the
\* Config class it declares), then the metaclass creates the form class
ClassStatement(tbl, flag, name, bases, decl) ==
    Let(IF decl.declared
        THEN TypeNew(tbl, "config", "Config",
                     IF decl.parent = 0 THEN <<>> ELSE << decl.parent >>,
                     decl.ns, 0, 0)
        ELSE [ok |-> TRUE, tbl |-> tbl, id |-> 0],
        LAMBDA body :
          IF body.ok THEN FormMetaclassNew(body.tbl, flag, name, bases, body.id) ELSE body)

\* class Form.Config(BaseConfig)
FormConfigNamespace ==
    [prefix |-> FormConfig.prefix, renderer |-> "StringRenderer()",
     widget_classes |-> FormConfig.widget_classes, widget_kwargs |-> FormConfig.widget_kwargs]

\* the classes that exist once the module is imported: object, BaseConfig,
\* BaseForm (created while _is_base_form_class_defined is False), then
\* Form and the classes of its configuration
ImportedClasses ==
    LET t1 == TypeNew(Builtins, "config", "BaseConfig", <<>>, EmptyDict, 0, 0).tbl
        t2 == ClassStatement(t1, FALSE, "BaseForm", <<>>, NoDecl).tbl
    IN  ClassStatement(t2, TRUE, "Form", << ClassNamed(t2, "BaseForm") >>,
                       Decl(ClassNamed(t2, "BaseConfig"), FormConfigNamespace)).tbl

\* getattr(cls, key): the namespace of the first class of the method
\* resolution order that has the key; AttributeError if there is none
HasAttr(tbl, cls, key) == \E c \in Elements(tbl[cls].mro) : key \in DOMAIN tbl[c].ns
DeclaringClass(tbl, cls, key) ==
    LET mro == tbl[cls].mro
        i == CHOOSE p \in 1..Len(mro) :
               /\ key \in DOMAIN tbl[mro[p]].ns
               /\ \A q \in 1..(p - 1) : key \notin DOMAIN tbl[mro[q]].ns
    IN  mro[i]
\* an attribute lookup that merges the override maps of all the classes of
\* the linearisation, the nearer class winning per field name
RECURSIVE MergedMaps(_, _, _)
MergedMaps(tbl, mro, key) ==
    IF mro = << >> THEN EmptyDict
    ELSE Update(MergedMaps(tbl, Tail(mro), key),
                IF key \in DOMAIN tbl[Head(mro)].ns THEN tbl[Head(mro)].ns[key] ELSE EmptyDict)
GetAttrMerged(tbl, cls, key) ==
    IF key \in {"widget_classes", "widget_kwargs"}
    THEN MergedMaps(tbl, tbl[cls].mro, key)
    ELSE tbl[DeclaringClass(tbl, cls, key)].ns[key]
GetAttr(tbl, cls, key) == tbl[DeclaringClass(tbl, cls, key)].ns[key]

\* the configuration a form class's instances read through self.__config__
EffectiveConfig(tbl, form) ==
    Config(GetAttr(tbl, tbl[form].config, "prefix"),
           GetAttr(tbl, tbl[form].config, "widget_classes"),
           GetAttr(tbl, tbl[form].config, "widget_kwargs"))
EffectiveRenderer(tbl, form) == GetAttr(tbl, tbl[form].config, "renderer")

(***************************************************************************)
(* The specification of a form instance: created once, then used through   *)
(* its operations in any order.                                            *)
(***************************************************************************)
Init ==
    /\ created = FALSE
    /\ classTable = ImportedClasses
    /\ subject = 0
    /\ config \in Configs
    /\ assertsOn \in BOOLEAN
    /\ probe = NoProbe
    /\ _data = DataNone
    /\ _initial = ModelNone
    /\ _error = ErrorNone
    /\ _model = ModelNone
    /\ _model_data = EmptyDict
    /\ cache = EmptyDict
    /\ heap = <<>>
    /\ hookCalls = 0
    /\ validateCalls = 0
    /\ firstClean = NoOutcome
    /\ last = Call("", "", "", NoOutcome)

Next ==
    \/ \E data \in RawData, initial \in Initials : Construct(data, initial)
    \/ Clean
    \/ Data
    \/ Errors
    \/ IsValid
    \/ \E style \in Styles, name \in BindNames : BindField(style, name)
    \/ \E name \in BindNames : GetItem(name)
    \/ \E id \in 1..MaxObjects : WidgetAccess(id)

Spec == Init /\ [][Next]_vars

(***************************************************************************)
(* The specification of the field values of a form instance: the           *)
(* operations that set or replace the snapshot _model_data, and value_of.  *)
(***************************************************************************)
ValueNext ==
    \/ \E data \in RawData, initial \in Initials : Construct(data, initial)
    \/ Clean
    \/ Data
    \/ Errors
    \/ IsValid
    \/ \E name \in FieldNames \cup {"nope"} : ValueOfCall(name)

ValueSpec == Init /\ [][ValueNext]_vars

(***************************************************************************)
(* The specification of a form instance whose caller keeps the raw input   *)
(* mapping and changes it while the form is in use, and reads the          *)
(* attributes of the widgets.                                              *)
(***************************************************************************)
\* the contents the caller changes the mapping to
MutatedDicts ==
    { EmptyDict,
      [name |-> PyStr("Al"), age |-> PyInt(200)] }

\* the caller adds, removes or changes keys of the mapping it passed as data;
\* __init__ stored the mapping itself, not a copy
MutateData(d) ==
    /\ created
    /\ _data.tag = "dict"
    /\ d # _data.dict
    /\ _data' = DataDict(d)
    /\ last' = Call("mutate data", "", "", ReturnNone)
    /\ UNCHANGED << classVars, created, config, assertsOn, probe, _initial, _error, _model,
                    _model_data, cache, heap, hookCalls, validateCalls, firstClean >>

\* bound_field.widget.attrs(), on a widget already computed
CallAttrs(id) ==
    /\ id \in Widgets
    /\ last' = Call("attrs", heap[id].field, "", Attrs(heap[id]))
    /\ UNCHANGED << classVars, created, config, assertsOn, probe, formVars, cache, heap,
                    hookCalls, validateCalls, firstClean >>

MutInit == Init /\ assertsOn /\ config = FormConfig

MutNext ==
    \/ Next
    \/ \E d \in MutatedDicts : MutateData(d)
    \/ \E id \in 1..MaxObjects : CallAttrs(id)

MutSpec == MutInit /\ [][MutNext]_vars

(***************************************************************************)
(* The specification of the widget resolution: BoundField.widget_class and *)
(* the widgets' format_value, called on the fields, configurations and     *)
(* values below.                                                           *)
(***************************************************************************)
TypeClasses ==
    {"bool", "int", "float", "date", "time", "datetime", "SecretStr", "str", "Decimal",
     "Literal"}
ProbeTypes == {PlainType(c) : c \in TypeClasses} \cup {Type("int", PyInt(0), PyInt(120))}
ProbeFields == {ModelField(n, t, FALSE, None) : n \in {"age", "x"}, t \in ProbeTypes}
ProbeConfigs ==
    {FormConfig} \cup {Config("", "age" :> c, EmptyDict) : c \in WidgetClasses}
ProbeValues ==
    { None, PyInt(30), PyStr("Al"), PyBool(TRUE), PySecret("pw"),
      PyDate(2024, 2, 9), PyTime(7, 5, 3), PyDateTime(2024, 12, 31, 23, 59, 58) }
\* <<the widget's own value, the value passed to format_value>>: attrs() passes
\* the widget's own value; a direct caller may pass another one
ProbePairs ==
    {p \in ProbeValues \X ProbeValues : p[1] = p[2] \/ p[1] = None \/ p[2] = None}

otherVars == << created, config, assertsOn, formVars, cache, heap, hookCalls, validateCalls,
                firstClean >>

\* bound_field.widget_class()
CallWidgetClass(field) ==
    /\ probe' = [NoProbe EXCEPT !.field = field]
    /\ last' = Call("widget_class", field.name, "", WidgetClass(field, config))
    /\ UNCHANGED << classVars, otherVars >>

\* widget.format_value(value), on a widget whose own value is selfValue
CallFormatValue(cls, selfValue, value) ==
    LET self == NewWidget(cls, [name |-> PyStr("x"), value |-> selfValue]) IN
    /\ probe' = [NoProbe EXCEPT !.self = self, !.value = value]
    /\ last' = Call("format_value", cls, "", FormatValue(self, value))
    /\ UNCHANGED << classVars, otherVars >>

WidgetInit ==
    /\ created = FALSE
    /\ classTable = ImportedClasses
    /\ subject = 0
    /\ classTable = ImportedClasses
    /\ subject = 0
    /\ config \in ProbeConfigs
    /\ assertsOn = TRUE
    /\ probe = NoProbe
    /\ _data = DataNone
    /\ _initial = ModelNone
    /\ _error = ErrorNone
    /\ _model = ModelNone
    /\ _model_data = EmptyDict
    /\ cache = EmptyDict
    /\ heap = <<>>
    /\ hookCalls = 0
    /\ validateCalls = 0
    /\ firstClean = NoOutcome
    /\ last = Call("", "", "", NoOutcome)

WidgetNext ==
    \/ \E field \in ProbeFields : CallWidgetClass(field)
    \/ \E cls \in WidgetClasses, p \in ProbePairs : CallFormatValue(cls, p[1], p[2])

WidgetSpec == WidgetInit /\ [][WidgetNext]_vars

(***************************************************************************)
(* The specification of the widget construction: BoundField.widget on the  *)
(* bound fields of valid forms whose schema has the field, whose class has *)
(* the configuration and whose validated data hold the value.              *)
(***************************************************************************)
BuildTypes ==
    { Type("int", PyInt(0), PyInt(120)), Type("int", PyInt(0), None),
      Type("int", None, PyInt(120)), Type("int", PyInt(-5), PyInt(0)),
      PlainType("int"), PlainType("float"), PlainType("bool"), PlainType("str") }
BuildFields ==
    {ModelField(n, type_, required, None) :
       n \in {"age", "x"}, type_ \in BuildTypes, required \in BOOLEAN}
BuildConfigs ==
    { FormConfig,
      Config("f_", "age" :> "Number", EmptyDict),
      Config("f_", EmptyDict,
             "age" :> [min |-> PyStr("1"), name |-> PyStr("years"),
                       placeholder |-> PyStr("0-120"), class |-> PyStr("wide")]),
      Config("", "age" :> "Checkbox", "age" :> [max |-> None, required |-> PyBool(TRUE)]),
      Config("g_", "age" :> "Input", "x" :> [min |-> PyStr("1")]) }
BuildValues == {None, PyInt(0), PyInt(30), PyBool(TRUE), PyStr("Al")}

\* bound_field.widget, first access
CallWidget(field, value) ==
    LET wc == WidgetClass(field, config)
        w == NewWidget(wc.what, WidgetKwargs(field, config, field.name :> value, wc.what))
    IN  /\ probe' = [NoProbe EXCEPT !.field = field, !.value = value,
                                    !.self = IF wc.kind = "raise" THEN NoProbe.self ELSE w]
        /\ last' = Call("widget", field.name, "",
                        IF wc.kind = "raise" THEN wc ELSE ReturnDict(wc.what, w.fields))
        /\ UNCHANGED << classVars, otherVars >>

BuildInit ==
    /\ created = FALSE
    /\ classTable = ImportedClasses
    /\ subject = 0
    /\ config \in BuildConfigs
    /\ assertsOn = TRUE
    /\ probe = NoProbe
    /\ _data = DataNone
    /\ _initial = ModelNone
    /\ _error = ErrorNone
    /\ _model = ModelNone
    /\ _model_data = EmptyDict
    /\ cache = EmptyDict
    /\ heap = <<>>
    /\ hookCalls = 0
    /\ validateCalls = 0
    /\ firstClean = NoOutcome
    /\ last = Call("", "", "", NoOutcome)

BuildNext == \E field \in BuildFields, value \in BuildValues : CallWidget(field, value)

BuildSpec == BuildInit /\ [][BuildNext]_vars

(***************************************************************************)
(* The specification of the form types: class statements that derive form  *)
(* classes from Form and from each other, and the widget resolution on the *)
(* effective configuration of a form class.                                *)
(***************************************************************************)
\* the names of the form classes a user defines, in the order of definition
FormNames == << "A", "B", "C" >>

IsForm(tbl, id) == tbl[id].kind = "form" /\ tbl[id].name # "BaseForm"
Forms(tbl) == {id \in 1..Len(tbl) : IsForm(tbl, id)}
UserForms(tbl) == {id \in Forms(tbl) : tbl[id].name # "Form"}
\* the form class defined last, if there is one
LatestForm(tbl) == {id \in UserForms(tbl) : \A other \in UserForms(tbl) : other <= id}

\* the value the Config class of form class `name` assigns to a key
DeclValue(name, key) ==
    CASE key = "prefix" ->
           (CASE name = "A" -> "a_" [] name = "B" -> "b_" [] OTHER -> "c_")
      [] key = "renderer" -> "Renderer of " \o name
      [] key = "widget_classes" ->
           (CASE name = "A" -> ("age" :> "Checkbox")
              [] name = "B" -> ("active" :> "Input")
              [] OTHER -> ("age" :> "Input" @@ "name" :> "Password"))
      [] key = "widget_kwargs" ->
           (CASE name = "A" -> ("age" :> ("step" :> PyStr("5")))
              [] name = "B" -> ("active" :> ("autofocus" :> PyBool(TRUE)))
              [] OTHER -> ("age" :> ("min" :> PyStr("1"))))

\* what the body declares: no Config, or a Config that assigns the keys and
\* is a plain class or a subclass of the first base's __config__
DeclShape(declared, subclass, keys) ==
    [declared |-> declared, subclass |-> subclass, keys |-> keys]
DeclShapes ==
    { DeclShape(FALSE, FALSE, {}),
      DeclShape(TRUE, FALSE, {"prefix"}),
      DeclShape(TRUE, TRUE, {"prefix", "renderer"}),
      DeclShape(TRUE, FALSE, {"widget_classes", "widget_kwargs"}),
      DeclShape(TRUE, TRUE, {"widget_classes"}),
      DeclShape(TRUE, FALSE, ConfigKeys) }

DeclOf(tbl, name, bases, shape) ==
    IF shape.declared
    THEN Decl(IF shape.subclass THEN tbl[bases[1]].config ELSE 0,
              [k \in shape.keys |-> DeclValue(name, k)])
    ELSE NoDecl

\* the bases of a class statement: one or two different form classes
BaseLists(tbl) ==
    { << b >> : b \in Forms(tbl) } \cup
    UNION { { << b, c >> : c \in Forms(tbl) \ {b} } : b \in Forms(tbl) }

\* class name(*bases): [class Config[(parent)]: ...]
DefineForm(bases, shape) ==
    /\ Cardinality(UserForms(classTable)) < Len(FormNames)
    /\ \E name \in {FormNames[Cardinality(UserForms(classTable)) + 1]} :
         \E r \in {ClassStatement(classTable, TRUE, name, bases,
                                  DeclOf(classTable, name, bases, shape))} :
           IF r.ok
           THEN /\ classTable' = r.tbl
                /\ subject' = r.id
                /\ last' = Call("class", name, "", ReturnRef("type", r.id))
           ELSE /\ classTable' = classTable
                /\ subject' = 0
                /\ last' = Call("class", name, "", Raise("TypeError"))
    /\ UNCHANGED << otherVars, probe >>

\* BoundField.widget_class of a field of a form of class `form`
FormWidgetClass(form, name) ==
    /\ probe' = [NoProbe EXCEPT !.field = FieldOf(name)]
    /\ subject' = form
    /\ last' = Call("widget_class", name, "",
                    WidgetClass(FieldOf(name), EffectiveConfig(classTable, form)))
    /\ UNCHANGED << otherVars, classTable >>

\* form(data={"name": "Al"})[name].widget_kwargs(): the keyword arguments of
\* the widget of a field of a validated instance of the form class
ValidatedData == [name |-> PyStr("Al"), age |-> PyInt(18), active |-> PyBool(FALSE)]
FormWidgetKwargs(form, name) ==
    LET cfg == EffectiveConfig(classTable, form)
        wc == WidgetClass(FieldOf(name), cfg)
    IN  /\ probe' = [NoProbe EXCEPT !.field = FieldOf(name)]
        /\ subject' = form
        /\ last' = Call("widget_kwargs", name, "",
                        IF wc.kind = "raise" THEN wc
                        ELSE ReturnDict("dict",
                                        WidgetKwargs(FieldOf(name), cfg, ValidatedData, wc.what)))
        /\ UNCHANGED << otherVars, classTable >>

ConfigInit ==
    /\ created = FALSE
    /\ classTable = ImportedClasses
    /\ subject = 0
    /\ config = FormConfig
    /\ assertsOn = TRUE
    /\ probe = NoProbe
    /\ _data = DataNone
    /\ _initial = ModelNone
    /\ _error = ErrorNone
    /\ _model = ModelNone
    /\ _model_data = EmptyDict
    /\ cache = EmptyDict
    /\ heap = <<>>
    /\ hookCalls = 0
    /\ validateCalls = 0
    /\ firstClean = NoOutcome
    /\ last = Call("", "", "", NoOutcome)

ConfigNext ==
    \/ \E bases \in BaseLists(classTable), shape \in DeclShapes : DefineForm(bases, shape)
    \/ \E form \in LatestForm(classTable), name \in {"age", "active"} :
         FormWidgetClass(form, name)
    \/ \E form \in LatestForm(classTable), name \in {"age", "active"} :
         FormWidgetKwargs(form, name)

ConfigSpec == ConfigInit /\ [][ConfigNext]_vars

(***************************************************************************)
(* The properties of a form instance.                                      *)
(***************************************************************************)
MemoValid == _model.tag # "None"
MemoInvalid == _error.tag # "None"
Terminal == MemoValid \/ MemoInvalid
BindOps == {"bind_field", "__getitem__"}

\* C1: once a clean() has ended in success or in a validation failure, a
\* later call of clean, data, errors, is_valid or bind_field calls neither
\* process_data nor the model constructor again and gives the outcome of
\* that first clean(): the same typed value, or the same stored violations.
C1_Idempotence ==
    [][ Terminal =>
          /\ hookCalls' = hookCalls
          /\ validateCalls' = validateCalls
          /\ firstClean' = firstClean
          /\ (last'.op = "clean" => last'.out = firstClean)
          /\ (last'.op = "data" =>
                last'.out = IF MemoValid THEN ReturnDict("Model", _model.dict) ELSE firstClean)
          /\ (last'.op = "is_valid" => last'.out = ReturnBool(firstClean.kind = "return"))
          /\ (last'.op = "errors" /\ MemoValid => last'.out = ReturnNone)
          /\ (last'.op = "errors" /\ MemoInvalid =>
                last'.out = Regroup(firstClean.errs, EmptyDict))
          /\ (last'.op \in BindOps /\ MemoInvalid => last'.out = firstClean)
          /\ (last'.op \in BindOps /\ MemoValid => last'.out.what # "ValidationError")
      ]_vars

\* C1 witness: a second clean() on a form whose validation failed
C1_Witness ==
    /\ MemoInvalid
    /\ last.op = "is_valid"
    /\ last.out = ReturnBool(FALSE)
    /\ validateCalls = 1
    /\ firstClean.what = "ValidationError"

\* C2: _model and _error are never both set; exactly one of them is set once
\* a validation has ended in a validation outcome; and a set one is never
\* cleared, changed or joined by the other.
C2_MemoInvariant ==
    /\ [](~(MemoValid /\ MemoInvalid))
    /\ []((validateCalls > 0 /\ last.op = "clean" /\ last.out.what \in {"None", "ValidationError"})
            => Terminal)
    /\ [](firstClean.kind # "none" <=> Terminal)
    /\ [][ /\ (MemoValid => _model' = _model /\ _error' = _error)
           /\ (MemoInvalid => _error' = _error /\ _model' = _model) ]_vars

\* C2 witness: a form whose validation failed, used again afterwards
C2_Witness ==
    /\ MemoInvalid
    /\ ~MemoValid
    /\ last.op = "data"
    /\ last.out.what = "ValidationError"

\* C3: is_valid() returns True if and only if errors returns None, at every
\* point: for what the two would return in the current state, and for what
\* two calls in a row did return.
C3_Exclusivity ==
    /\ [](created =>
            \A env \in Envs :
               LET r == CleanResult(env) IN
               (IsValidOutcome(r) = ReturnBool(TRUE)) <=> (ErrorsOutcome(r) = ReturnNone))
    /\ [][ /\ (last.op = "is_valid" /\ last.out.kind = "return" /\ last'.op = "errors")
                => ((last.out = ReturnBool(TRUE)) <=> (last'.out = ReturnNone))
           /\ (last.op = "errors" /\ last.out.kind = "return" /\ last'.op = "is_valid")
                => ((last'.out = ReturnBool(TRUE)) <=> (last.out = ReturnNone)) ]_vars

\* C3 witness: errors returned a mapping with a key on a form that is not valid
C3_Witness ==
    /\ last.op = "errors"
    /\ last.out.kind = "return"
    /\ last.out.what = "dict"
    /\ DOMAIN last.out.dict # {}
    /\ IsValidOutcome(CleanResult("ok")) = ReturnBool(FALSE)

\* the field name a key of the cache of bind_field is for
KeyName(key) == key[Len(key)]

\* C4: two calls of bind_field for one field name return the same BoundField,
\* and the cache holds at most one BoundField per field name.
C4_CacheIdentity ==
    /\ \A k1, k2 \in DOMAIN cache : KeyName(k1) = KeyName(k2) => cache[k1] = cache[k2]
    /\ \A name \in FieldNames : Cardinality({id \in BoundFields : heap[id].field = name}) <= 1

\* C5, as claimed: bind_field of an undeclared name fails with the
\* invalid-field error (KeyError) in every state of the validation memo.
C5_AlwaysKeyError ==
    (last.op \in BindOps /\ last.arg \notin FieldNames) => last.out = Raise("KeyError")

\* C5, amended: bind_field of an undeclared name never returns a BoundField
\* and caches nothing; it raises the stored ValidationError on a form whose
\* validation failed, KeyError on a form whose validation succeeded, and the
\* error of the collaborator when validating ended in an error of another kind.
C5_UndeclaredName ==
    /\ \A key \in DOMAIN cache : KeyName(key) \in FieldNames
    /\ (last.op \in BindOps /\ last.arg \notin FieldNames) =>
          /\ last.out.kind = "raise"
          /\ (MemoInvalid => last.out = RaiseStored(_error))
          /\ (MemoValid => last.out = Raise("KeyError"))
          /\ (~Terminal => last.out.what \in {"RuntimeError", "TypeError"})

\* C5 witness: KeyError for an undeclared name on a form whose validation succeeded
C5_Witness ==
    /\ last.op = "bind_field"
    /\ last.arg = "nope"
    /\ MemoValid
    /\ last.out = Raise("KeyError")

\* C6: is_valid() never ends in a ValidationError and returns False for one;
\* errors never ends in a ValidationError and returns the regrouped
\* violations for one; an error of another kind raised while validating
\* leaves clean, data, is_valid and errors as it was raised.
C6_AbsorbOnlyValidation ==
    /\ (last.op = "is_valid" /\ MemoInvalid) => last.out = ReturnBool(FALSE)
    /\ (last.op = "errors" /\ MemoInvalid) =>
          (last.out.kind = "return" /\ last.out.what = "dict")
    /\ (last.op \in {"clean", "data", "is_valid", "errors"} /\ ~Terminal) =>
          (last.out = Raise("RuntimeError") \/ last.out = Raise("TypeError"))

\* C7: __init__ with an initial value that is neither None nor an instance
\* of the model raises ValueError, creates no form and validates nothing;
\* with None or an instance of the model it returns a form, not yet validated.
C7_ConstructionCheck ==
    /\ (last.op = "__init__" /\ last.arg = "object") =>
          /\ last.out = Raise("ValueError")
          /\ ~created
          /\ hookCalls = 0 /\ validateCalls = 0
          /\ ~Terminal
    /\ (last.op = "__init__" /\ last.arg \in {"None", "Model"}) =>
          /\ last.out = ReturnNone
          /\ created
          /\ _initial.tag = last.arg
          /\ hookCalls = 0 /\ validateCalls = 0
    /\ created => _initial.tag \in {"None", "Model"}

\* C7 witness: a rejected initial value
C7_Witness ==
    /\ last.op = "__init__"
    /\ last.arg = "object"
    /\ last.out = Raise("ValueError")
    /\ ~created

\* C7 witness of the other case: an accepted instance of the model
C7_WitnessAccepted == created /\ last.op = "__init__" /\ _initial.tag = "Model"

\* the violations the engine reported for a field, in the order reported
ViolationsOf(raw, field) ==
    LET mine == SelectSeq(raw, LAMBDA exc : exc.loc = << field >>)
    IN  [i \in 1..Len(mine) |-> mine[i].exc]

\* C12: on a form whose validation failed, errors returns a mapping whose
\* keys are exactly the fields of the reported violations and whose value
\* for a field is the list of that field's violations in the order reported.
C12_Regrouping ==
    (last.op = "errors" /\ MemoInvalid) =>
        /\ last.out.kind = "return"
        /\ last.out.what = "dict"
        /\ DOMAIN last.out.dict =
              {_error.raw_errors[i].loc[1] : i \in 1..Len(_error.raw_errors)}
        /\ \A field \in DOMAIN last.out.dict :
              last.out.dict[field] = ViolationsOf(_error.raw_errors, field)

\* C14: value_of of a declared field returns, on a form without a
\* validated model, the raw input's value if the raw input has the field,
\* else the initial value's field if an initial value was given, else the
\* schema default; on a form with a validated model, the field of the model.
C14_ValueLayering ==
    (last.op = "value_of" /\ last.arg \in FieldNames) =>
        last.out = ReturnValue(
            IF MemoValid THEN _model.dict[last.arg]
            ELSE IF _data.tag = "dict" /\ last.arg \in DOMAIN _data.dict
            THEN _data.dict[last.arg]
            ELSE IF _initial.tag = "Model" THEN _initial.dict[last.arg]
            ELSE FieldOf(last.arg).default)

\* C14 witness: after a successful validation of the raw age "30" the value
\* of age is the integer 30
C14_Witness ==
    /\ last.op = "value_of"
    /\ last.arg = "age"
    /\ MemoValid
    /\ _data.tag = "dict"
    /\ "age" \in DOMAIN _data.dict
    /\ _data.dict["age"] = PyStr("30")
    /\ last.out = ReturnValue(PyInt(30))

\* C14 witnesses of the layers below: the initial value, the schema default
C14_WitnessInitial ==
    /\ last.op = "value_of"
    /\ last.arg = "age"
    /\ ~MemoValid
    /\ _initial.tag = "Model"
    /\ (_data.tag = "None" \/ "age" \notin DOMAIN _data.dict)
    /\ last.out = ReturnValue(PyInt(40))
C14_WitnessDefault ==
    /\ last.op = "value_of"
    /\ last.arg = "age"
    /\ ~MemoValid
    /\ _initial.tag = "None"
    /\ (_data.tag = "None" \/ "age" \notin DOMAIN _data.dict)
    /\ last.out = ReturnValue(PyInt(18))

\* the attributes of the widget built from the validated model for a field
AttrsFromModel(name) ==
    LET wc == WidgetClass(FieldOf(name), config).what
    IN  Attrs(NewWidget(wc, WidgetKwargs(FieldOf(name), config, _model.dict, wc)))

\* C16: once a BoundField has its widget, every step of the form and of its
\* caller, a change of the raw input mapping included, leaves the BoundField
\* with that widget and the widget with the attributes it reports; attrs()
\* reports the attributes built from the validated model, whatever the raw
\* input mapping holds by then.
C16_WidgetStability ==
    /\ [][ /\ \A w \in Widgets : Attrs(heap'[w]) = Attrs(heap[w])
           /\ \A b \in BoundFields : heap[b].widget # 0 => heap'[b].widget = heap[b].widget
         ]_vars
    /\ [](last.op = "attrs" => last.out = AttrsFromModel(last.arg))

\* C16 witness: the attributes of the widget of age, computed from the raw
\* age "30", reported after the caller has emptied the raw input mapping
C16_Witness ==
    /\ last.op = "attrs"
    /\ last.arg = "age"
    /\ _data = DataDict(EmptyDict)
    /\ _initial.tag = "None"
    /\ last.out.kind = "return"
    /\ last.out.dict["value"] = PyStr("30")
    /\ last.out.dict["name"] = PyStr("age")

\* C18: bind_field validates before anything else: on a form whose
\* validation failed, bind_field(name) and form[name] raise the stored
\* ValidationError for every name, declared or not; such a form has no cache
\* entry, no BoundField and no widget, so that a BoundField or a widget
\* exists only on a form whose validation succeeded.
C18_ValidateFirst ==
    /\ (last.op \in BindOps /\ MemoInvalid) => last.out = RaiseStored(_error)
    /\ MemoInvalid => (DOMAIN cache = {} /\ heap = << >>)
    /\ (BoundFields \cup Widgets # {}) => MemoValid
    /\ (last.op \in BindOps /\ last.out.kind = "return") =>
          (MemoValid /\ last.out.what = "BoundField" /\ last.out.ref \in BoundFields)

\* C18 witness: form["nope"], an undeclared name, on a form whose validation
\* failed raises the stored ValidationError
C18_Witness ==
    /\ last.op = "__getitem__"
    /\ last.arg = "nope"
    /\ MemoInvalid
    /\ last.out = RaiseStored(_error)
    /\ last.out.what = "ValidationError"

\* C18 witness: bind_field("age"), a declared name, on the same kind of form
C18_WitnessDeclared ==
    /\ last.op = "bind_field"
    /\ last.arg = "age"
    /\ MemoInvalid
    /\ last.out = RaiseStored(_error)

\* C19: only a validation outcome is memoized.  A clean() that ends in an
\* error of process_data or of the model constructor, which is no
\* ValidationError, leaves the form with neither _model nor _error and with
\* the same field-value snapshot; and on a form with neither of them every
\* call of clean, data, errors, is_valid, bind_field or form[name] runs
\* process_data again (and the validation, unless process_data raises)
\* instead of replaying an earlier error.
MemoOps == {"clean", "data", "errors", "is_valid"} \cup BindOps
OtherErrors == {"RuntimeError", "TypeError"}
C19_OnlyValidationMemoized ==
    /\ []((last.op \in MemoOps /\ last.out.kind = "raise" /\ last.out.what \in OtherErrors)
            => (_model = ModelNone /\ _error = ErrorNone))
    /\ [][ (created /\ ~Terminal /\ last'.op \in MemoOps) =>
             /\ hookCalls' = hookCalls + 1
             /\ validateCalls' = validateCalls +
                                    (IF last'.out = Raise("RuntimeError") THEN 0 ELSE 1)
             /\ (last'.out.kind = "raise" /\ last'.out.what \in OtherErrors) =>
                   /\ _model' = ModelNone
                   /\ _error' = ErrorNone
                   /\ _model_data' = _model_data
                   /\ firstClean' = NoOutcome
           ]_vars

\* C19 witness: data returns the typed value from the second run of
\* process_data and the first validation, after a call that ended in the
\* error of process_data
C19_Witness ==
    /\ last.op = "data"
    /\ last.out.kind = "return"
    /\ MemoValid
    /\ hookCalls = 2
    /\ validateCalls = 1

\* C19 witness: the state after a clean() that ended in the error of
\* process_data, with nothing stored
C19_WitnessUnbound ==
    /\ last.op = "clean"
    /\ last.out = Raise("RuntimeError")
    /\ ~Terminal
    /\ hookCalls = 1
    /\ validateCalls = 0

(***************************************************************************)
(* The properties of the widget resolution.                                *)
(***************************************************************************)
\* C8: for a field whose name has an entry in widget_classes, widget_class()
\* returns that entry whatever the declared type is, also a type the
\* inference has no widget for and a type that is no class.
C8_OverridePrecedence ==
    (last.op = "widget_class" /\ probe.field.name \in DOMAIN config.widget_classes) =>
        last.out = ReturnClass(config.widget_classes[probe.field.name])

\* C8 witness: an int field overridden to Checkbox resolves to Checkbox
C8_Witness ==
    /\ last.op = "widget_class"
    /\ probe.field.name = "age"
    /\ probe.field.type_.cls = "int"
    /\ "age" \in DOMAIN config.widget_classes
    /\ config.widget_classes["age"] = "Checkbox"
    /\ last.out = ReturnClass("Checkbox")

\* the widget the inference table of the specification gives a declared type
InferredWidget(cls) ==
    CASE cls = "bool" -> "Checkbox"
      [] cls \in {"int", "float"} -> "Number"
      [] cls = "date" -> "Date"
      [] cls = "time" -> "Time"
      [] cls = "datetime" -> "DateTime"
      [] cls = "SecretStr" -> "Password"
      [] OTHER -> "Input"

\* C9: for a field with no override, widget_class() returns the widget of
\* the first match of bool, int/float, date, time, datetime, SecretStr, and
\* Input for any other declared type.
C9_InferenceTable ==
    (last.op = "widget_class" /\ probe.field.name \notin DOMAIN config.widget_classes) =>
        last.out = ReturnClass(InferredWidget(probe.field.type_.cls))

\* the display format the specification gives a date, time or datetime widget
DisplayFormat(cls) ==
    CASE cls = "Date" -> "%Y-%m-%d"
      [] cls = "Time" -> "%H:%M:%S"
      [] cls = "DateTime" -> "%Y-%m-%dT%H:%M:%S"

\* the type of the values a date, time or datetime widget holds
TemporalType(cls) ==
    CASE cls = "Date" -> "date" [] cls = "Time" -> "time" [] cls = "DateTime" -> "datetime"

\* C10: a Date, Time or DateTime widget formats None as "" and its own
\* non-null value as the string its display format gives, without failing.
C10_TemporalFormat ==
    (last.op = "format_value" /\ probe.self.cls \in {"Date", "Time", "DateTime"}) =>
        /\ probe.value = None => last.out = ReturnStr("")
        /\ (probe.value.tag = TemporalType(probe.self.cls)
              /\ probe.self.fields["value"] = probe.value) =>
             last.out = ReturnStr(Expand(Tokens(DisplayFormat(probe.self.cls)), probe.value))

(***************************************************************************)
(* The properties of the form types.                                       *)
(***************************************************************************)
\* the form class's own Config assigns the key
Declares(form, key) ==
    classTable[form].own # 0 /\ key \in DOMAIN classTable[classTable[form].own].ns
Declared(form, key) == classTable[classTable[form].own].ns[key]
\* the value of the key in the form class's effective configuration
Effective(form, key) == GetAttr(classTable, classTable[form].config, key)
\* the form classes a user defined among the form class and its ancestors
Lineage(form) == Elements(classTable[form].mro) \cap UserForms(classTable)

\* C11: for a form class B whose only base is the form class A, every
\* configuration key B's own Config assigns has B's value, every other key
\* has the value of A's effective configuration, whether B's Config is a
\* plain class or a subclass of A's configuration, and a key that no Config
\* of B or of its ancestors assigns has the default of Form.Config.
C11_InheritPerKey ==
    \A B \in UserForms(classTable) :
      Len(classTable[B].bases) = 1 =>
        LET A == classTable[B].bases[1] IN
        \A key \in ConfigKeys :
          /\ HasAttr(classTable, classTable[B].config, key)
          /\ Declares(B, key) => Effective(B, key) = Declared(B, key)
          /\ ~Declares(B, key) => Effective(B, key) = Effective(A, key)
          /\ (\A F \in Lineage(B) : ~Declares(F, key)) =>
                Effective(B, key) = FormConfigNamespace[key]

\* C11 witness: A sets the prefix "a_", B extends A with a Config of its own
\* that sets no prefix, and B's effective prefix is "a_"
C11_Witness ==
    \E B \in UserForms(classTable) :
      /\ Len(classTable[B].bases) = 1
      /\ classTable[B].bases[1] \in UserForms(classTable)
      /\ Declares(classTable[B].bases[1], "prefix")
      /\ Declared(classTable[B].bases[1], "prefix") = "a_"
      /\ classTable[B].own # 0
      /\ ~Declares(B, "prefix")
      /\ subject = B
      /\ EffectiveConfig(classTable, B).prefix = "a_"

\* C11 witness of the other case: B sets the prefix "b_" over A's "a_"
C11_WitnessOverride ==
    \E B \in UserForms(classTable) :
      /\ classTable[B].bases # << ClassNamed(classTable, "Form") >>
      /\ Len(classTable[B].bases) = 1
      /\ Effective(classTable[B].bases[1], "prefix") = "a_"
      /\ subject = B
      /\ EffectiveConfig(classTable, B).prefix = "b_"

\* C20: the inheritance works on whole configuration keys.  When the own
\* Config of a form class declares widget_classes (or widget_kwargs), the
\* form class's effective map is exactly the declared map: a field it does
\* not name gets the widget class inferred from its type and no extra
\* keyword argument, also when an ancestor's Config had an entry for it.
OverrideMaps == {"widget_classes", "widget_kwargs"}
C20_WholeKeys ==
    /\ \A F \in UserForms(classTable), key \in OverrideMaps :
          Declares(F, key) => Effective(F, key) = Declared(F, key)
    /\ (/\ last.op = "widget_class"
        /\ Declares(subject, "widget_classes")
        /\ last.arg \notin DOMAIN Declared(subject, "widget_classes"))
         => last.out = ReturnClass(InferredWidget(FieldOf(last.arg).type_.cls))
    /\ (/\ last.op = "widget_kwargs"
        /\ Declares(subject, "widget_kwargs")
        /\ last.arg \notin DOMAIN Declared(subject, "widget_kwargs"))
         => /\ last.out.kind = "return"
            /\ DOMAIN last.out.dict \subseteq {"name", "id", "required", "value", "min", "max"}
            /\ "min" \in DOMAIN last.out.dict =>
                  last.out.dict["min"] = PyStr(PyStrOf(FieldOf(last.arg).type_.ge))
            /\ "max" \in DOMAIN last.out.dict =>
                  last.out.dict["max"] = PyStr(PyStrOf(FieldOf(last.arg).type_.le))

\* C20 witness: A's Config maps age to Checkbox, B extends A with a Config
\* whose widget_classes names only active, and B's widget class of age is
\* Number, the class inferred from int
C20_Witness ==
    /\ last.op = "widget_class"
    /\ last.arg = "age"
    /\ subject \in UserForms(classTable)
    /\ classTable[subject].name = "B"
    /\ Declares(subject, "widget_classes")
    /\ "age" \notin DOMAIN Declared(subject, "widget_classes")
    /\ \E A \in Lineage(subject) \ {subject} :
          /\ Declares(A, "widget_classes")
          /\ "age" \in DOMAIN Declared(A, "widget_classes")
          /\ Declared(A, "widget_classes")["age"] = "Checkbox"
    /\ last.out = ReturnClass("Number")

\* C20 witness: A's Config gives age the keyword argument step, B extends A
\* with a Config whose widget_kwargs names only active, and the keyword
\* arguments of B's widget of age have no step
C20_WitnessKwargs ==
    /\ last.op = "widget_kwargs"
    /\ last.arg = "age"
    /\ subject \in UserForms(classTable)
    /\ Declares(subject, "widget_kwargs")
    /\ "age" \notin DOMAIN Declared(subject, "widget_kwargs")
    /\ \E A \in Lineage(subject) \ {subject} :
          /\ Declares(A, "widget_kwargs")
          /\ "step" \in DOMAIN Declared(A, "widget_kwargs")["age"]
    /\ "step" \notin DOMAIN last.out.dict

\* the form class or one of its ancestors has a Config that assigns the key
SetsKey(form, key) == \E F \in Lineage(form) : Declares(F, key)
\* the positions of the bases of a form class that set the key
SettingBases(form, key) ==
    {i \in 1..Len(classTable[form].bases) : SetsKey(classTable[form].bases[i], key)}
\* no two bases of the form class have an ancestor in common, but for Form
IndependentBases(form) ==
    \A i, j \in 1..Len(classTable[form].bases) :
      i # j => Lineage(classTable[form].bases[i]) \cap Lineage(classTable[form].bases[j]) = {}

\* C17, as claimed: for a form class with several bases, a key its own
\* Config assigns has that value, and a key that several bases set has the
\* value of the base declared last among them.
C17_LeftToRight ==
    \A C \in UserForms(classTable) :
      Len(classTable[C].bases) > 1 =>
        \A key \in ConfigKeys :
          /\ Declares(C, key) => Effective(C, key) = Declared(C, key)
          /\ (~Declares(C, key) /\ SettingBases(C, key) # {}) =>
                LET last_ == CHOOSE i \in SettingBases(C, key) :
                               \A j \in SettingBases(C, key) : j <= i
                IN  Effective(C, key) = Effective(classTable[C].bases[last_], key)

\* C17, amended: for a form class with several bases, a key its own Config
\* assigns has that value; any other key has the effective value of one of
\* the bases; and when the bases have no ancestor in common but Form, it has
\* the value of the base declared first among those that set it, and the
\* default of Form.Config when none sets it.
C17_RightToLeft ==
    \A C \in UserForms(classTable) :
      Len(classTable[C].bases) > 1 =>
        \A key \in ConfigKeys :
          /\ Declares(C, key) => Effective(C, key) = Declared(C, key)
          /\ ~Declares(C, key) =>
                \E i \in 1..Len(classTable[C].bases) :
                  Effective(C, key) = Effective(classTable[C].bases[i], key)
          /\ (~Declares(C, key) /\ IndependentBases(C)) =>
                IF SettingBases(C, key) = {}
                THEN Effective(C, key) = FormConfigNamespace[key]
                ELSE LET first == CHOOSE i \in SettingBases(C, key) :
                                    \A j \in SettingBases(C, key) : i <= j
                     IN  Effective(C, key) = Effective(classTable[C].bases[first], key)

\* C17 witness: C(A, B), A sets the prefix "a_", B sets the prefix "b_", C
\* sets none, and C's effective prefix is "a_"
C17_Witness ==
    \E C \in UserForms(classTable) :
      /\ Len(classTable[C].bases) = 2
      /\ subject = C
      /\ ~Declares(C, "prefix")
      /\ IndependentBases(C)
      /\ Declares(classTable[C].bases[1], "prefix")
      /\ Declares(classTable[C].bases[2], "prefix")
      /\ Effective(classTable[C].bases[1], "prefix") = "a_"
      /\ Effective(classTable[C].bases[2], "prefix") = "b_"
      /\ EffectiveConfig(classTable, C).prefix = "a_"

(***************************************************************************)
(* The properties of the widget construction.                              *)
(***************************************************************************)
\* the attributes the configuration gives the field of the last call
Configured ==
    IF probe.field.name \in DOMAIN config.widget_kwargs
    THEN config.widget_kwargs[probe.field.name] ELSE EmptyDict
\* the string form of a declared bound, None for no bound
BoundAttr(bound) == IF bound = None THEN None ELSE PyStr(StrInt(bound.parts[1]))

C13_WitnessNoBounds ==
    /\ last.op = "widget"
    /\ last.out.what = "Number"
    /\ probe.field.type_ = PlainType("int")
    /\ probe.self.fields["min"] = None
    /\ probe.self.fields["max"] = None

\* the attributes widget_kwargs starts from, and the extra attributes of the
\* widget type, for the field and the value of the last call
BaseAttrs ==
    [name |-> PyStr(config.prefix \o probe.field.name),
     id |-> PyStr("id_" \o config.prefix \o probe.field.name),
     required |-> PyBool(probe.field.required),
     value |-> probe.value]
TypeAttrs ==
    IF probe.self.cls = "Number"
    THEN [k \in {b \in {"min", "max"} :
                   (IF b = "min" THEN probe.field.type_.ge ELSE probe.field.type_.le) # None}
            |-> BoundAttr(IF k = "min" THEN probe.field.type_.ge ELSE probe.field.type_.le)]
    ELSE EmptyDict
\* the keyword a declared field of a widget is given by
Keyword(k) == IF k = "class_" THEN "class" ELSE k

\* C15: every attribute of the widget built for a field has the configured
\* per-field value if the configuration names it, else the widget type's
\* extra value if the type gives one, else the base value (name: prefix +
\* field name, id: "id_" + prefix + field name, required, value), else the
\* default of the widget class.
C15_AttributeMerge ==
    (last.op = "widget" /\ last.out.kind = "return") =>
        \A k \in DOMAIN probe.self.fields :
          probe.self.fields[k] =
            IF Keyword(k) \in DOMAIN Configured THEN Configured[Keyword(k)]
            ELSE IF k \in DOMAIN TypeAttrs THEN TypeAttrs[k]
            ELSE IF k \in DOMAIN BaseAttrs THEN BaseAttrs[k]
            ELSE WidgetDefaults(probe.self.cls)[k]

\* C15 witness: the configured min "1" and name "years" win over the Number
\* widget's min "0" and over the prefixed name; the id keeps the prefixed name
C15_Witness ==
    /\ last.op = "widget"
    /\ last.out.what = "Number"
    /\ probe.field.name = "age"
    /\ probe.field.type_ = Type("int", PyInt(0), PyInt(120))
    /\ config.prefix = "f_"
    /\ "min" \in DOMAIN Configured
    /\ Configured["min"] = PyStr("1")
    /\ probe.self.fields["min"] = PyStr("1")
    /\ probe.self.fields["max"] = PyStr("120")
    /\ probe.self.fields["name"] = PyStr("years")
    /\ probe.self.fields["id"] = PyStr("id_f_age")
    /\ probe.self.fields["class_"] = PyStr("wide")
    /\ probe.self.fields["value"] = PyInt(30)

====
